---- MODULE Spec2Model ----
(***************************************************************************)
(* Model of the healthcare management backend (src/app.py): the four       *)
(* entity constructors, the JSON-file backed DataStore and the HTTP route  *)
(* handlers, one action per route.                                         *)
(*                                                                         *)
(* Text values that the code inspects (names, contacts, ages given as      *)
(* strings, identifiers, symptom text) are sequences of one-character      *)
(* strings; messages and labels that the code only passes on are strings.  *)
(* Weights are whole kilograms and heights whole centimetres; a BMI is     *)
(* kept in hundredths (2286 stands for 22.86), which is exactly what       *)
(* round(x, 2) keeps of it.                                                *)
(***************************************************************************)
EXTENDS Integers, Sequences, FiniteSets, TLC

VARIABLES
    data,           \* DataStore.data: the four in-memory lists
    file,           \* healthcare_data.json on disk
    patient_count,  \* Patient._patient_count
    appt_count,     \* Appointment._appt_count
    resp,           \* the last request and the response it got
    issued,         \* history: patient ids returned with 201 in this process run
    faults          \* history: number of file writes that have failed

vars == <<data, file, patient_count, appt_count, resp, issued, faults>>

----------------------------------------------------------------------------
(* Bounds of the model *)

\* cap on each id counter within one process run
MaxCount == 2
\* cap on the total number of records held in the four lists
MaxRecords == 4
\* cap on the number of symptom records in the risk-prediction specification
MaxSymptoms == 6
\* cap on the number of BMI records in the risk-prediction specification
MaxBmi == 2
\* cap on the number of failed file writes in the faulty-disk specification
MaxFaults == 1

----------------------------------------------------------------------------
(* Text helpers *)

DigitChars == <<"0", "1", "2", "3", "4", "5", "6", "7", "8", "9">>

IsDigit(c) == \E i \in 1..10 : DigitChars[i] = c

DigitVal(c) == (CHOOSE i \in 1..10 : DigitChars[i] = c) - 1

\* str(n) for n >= 0
RECURSIVE Str(_)
Str(n) == IF n < 10 THEN <<DigitChars[n + 1]>>
          ELSE Str(n \div 10) \o <<DigitChars[(n % 10) + 1]>>

\* s.zfill(width) for an unsigned s
RECURSIVE Zfill(_, _)
Zfill(s, width) == IF Len(s) >= width THEN s ELSE Zfill(<<"0">> \o s, width)

\* value of a non-empty sequence of digits
RECURSIVE DigitsVal(_)
DigitsVal(s) == IF Len(s) = 0 THEN 0
                ELSE 10 * DigitsVal(SubSeq(s, 1, Len(s) - 1)) + DigitVal(s[Len(s)])

AllDigits(s) == Len(s) > 0 /\ \A i \in 1..Len(s) : IsDigit(s[i])

IsSpace(c) == c \in {" ", "\n", "\t"}

\* s.strip()
RECURSIVE Strip(_)
Strip(s) == IF Len(s) > 0 /\ IsSpace(s[1]) THEN Strip(Tail(s))
            ELSE IF Len(s) > 0 /\ IsSpace(s[Len(s)]) THEN Strip(SubSeq(s, 1, Len(s) - 1))
            ELSE s

\* s.lower(), for the letters the model's texts use
LowerChar(c) ==
    CASE c = "F" -> "f"
      [] c = "C" -> "c"
      [] c = "H" -> "h"
      [] OTHER -> c

Lower(s) == [i \in 1..Len(s) |-> LowerChar(s[i])]

\* k in s, for strings
Contains(s, k) ==
    \E i \in 1..(Len(s) - Len(k) + 1) : SubSeq(s, i, i + Len(k) - 1) = k

----------------------------------------------------------------------------
(* Patient *)

Today == "today"

\* int(age): a JSON integer is itself; a string is parsed (surrounding
\* whitespace stripped, optional sign, decimal digits), anything else in a
\* string raises ValueError; null raises TypeError
IntParse(age) ==
    IF age.t = "int" THEN [ok |-> TRUE, v |-> age.v]
    ELSE IF age.t = "null" THEN [ok |-> FALSE, err |-> "TypeError"]
    ELSE LET s == Strip(age.v)
             neg == Len(s) > 0 /\ s[1] = "-"
             body == IF Len(s) > 0 /\ s[1] \in {"-", "+"} THEN Tail(s) ELSE s
         IN  IF AllDigits(body)
             THEN [ok |-> TRUE, v |-> IF neg THEN 0 - DigitsVal(body) ELSE DigitsVal(body)]
             ELSE [ok |-> FALSE, err |-> "ValueError"]

\* re.match(r'^\d{10}$', contact): ten digits, then the end of the string or
\* a final newline
ContactMatches(contact) ==
    \/ Len(contact) = 10 /\ AllDigits(contact)
    \/ Len(contact) = 11 /\ AllDigits(SubSeq(contact, 1, 10)) /\ contact[11] = "\n"

\* Patient._validate_input, lines 41-46: the range error is raised inside the
\* try block whose handler catches every ValueError
ValidateAge(age) ==
    LET p == IntParse(age)
    IN  IF p.ok
        THEN IF p.v < 0 \/ p.v > 150
             THEN \* raise ValueError("Age must be between 0-150"), caught by
                  \* the except ValueError clause of the same try statement
                  [raised |-> "ValueError", msg |-> "Invalid age format"]
             ELSE [raised |-> "none", msg |-> ""]
        ELSE IF p.err = "ValueError"
             THEN [raised |-> "ValueError", msg |-> "Invalid age format"]
             ELSE [raised |-> "TypeError", msg |-> "int() argument must be a string or a number"]

\* Patient._validate_input
ValidateInput(name, age, contact) ==
    IF Len(name) = 0 \/ Len(Strip(name)) = 0
    THEN [raised |-> "ValueError", msg |-> "Patient name cannot be empty"]
    ELSE IF ~ContactMatches(contact)
    THEN [raised |-> "ValueError", msg |-> "Contact must be 10 digits"]
    ELSE ValidateAge(age)

\* Patient._generate_id
GenerateId(count) == <<"P">> \o Zfill(Str(count + 1), 3)

\* Patient._patient_count += 1 (a mutant leaves the counter alone)
BumpStuck(count) == count
Bump(count) == count + 1

\* Patient.__init__ after validation, and Patient.to_dict
PatientDict(count, name, age, contact, history) ==
    [patient_id |-> GenerateId(count), name |-> name, age |-> IntParse(age).v,
     contact |-> contact, history |-> history, date_added |-> Today]

\* the numeric counter an identifier carries after its letter prefix
RECURSIVE IdNum(_)
IdNum(id) == IF Len(id) > 0 /\ ~IsDigit(id[1]) THEN IdNum(Tail(id)) ELSE DigitsVal(id)

----------------------------------------------------------------------------
(* Appointment, HealthMetric, SymptomRecord *)

\* Appointment.__init__ and Appointment.to_dict
AppointmentDict(count, patient_id, doctor, date_str, time_str) ==
    [appointment_id |-> <<"A", "P", "T">> \o Zfill(Str(count + 1), 3),
     patient_id |-> patient_id, doctor |-> doctor, date |-> date_str,
     time |-> time_str, status |-> "Confirmed"]

\* HealthMetric._calculate_bmi: round(weight / height ** 2, 2), in hundredths,
\* for a weight in kg and a height in cm (ties go to the even hundredth)
CalculateBmi(weight, height) ==
    LET num == weight * 1000000
        den == height * height
        q == num \div den
        r == num % den
    IN  IF 2 * r < den THEN q
        ELSE IF 2 * r > den THEN q + 1
        ELSE IF q % 2 = 0 THEN q ELSE q + 1

\* HealthMetric._categorize
Categorize(bmi) ==
    IF bmi < 1850 THEN "Underweight"
    ELSE IF bmi < 2500 THEN "Normal"
    ELSE IF bmi < 3000 THEN "Overweight"
    ELSE "Obese"

\* HealthMetric.__init__ after its check, and HealthMetric.to_dict
MetricDict(patient_id, weight, height) ==
    [patient_id |-> patient_id, weight |-> weight, height |-> height,
     bmi |-> CalculateBmi(weight, height),
     category |-> Categorize(CalculateBmi(weight, height)), date |-> Today]

\* SymptomRecord.SYMPTOM_MAP, in its order
SYMPTOM_MAP ==
    << [key |-> <<"f", "e", "v", "e", "r">>, condition |-> "Fever",
        action |-> "Rest and drink water"],
       [key |-> <<"c", "o", "u", "g", "h">>, condition |-> "Cough",
        action |-> "Cough syrup and fluids"],
       [key |-> <<"h", "e", "a", "d", "a", "c", "h", "e">>, condition |-> "Headache",
        action |-> "Rest and pain relief"],
       [key |-> <<"c", "h", "e", "s", "t", " ", "p", "a", "i", "n">>,
        condition |-> "Chest Pain", action |-> "See doctor immediately"] >>

\* SymptomRecord._detect_condition: the first key found in the text wins
DetectCondition(symptoms) ==
    LET hits == {i \in 1..Len(SYMPTOM_MAP) : Contains(symptoms, SYMPTOM_MAP[i].key)}
    IN  IF hits = {} THEN [condition |-> "Unknown", action |-> "Consult doctor"]
        ELSE LET i == CHOOSE h \in hits : \A g \in hits : h <= g
             IN  [condition |-> SYMPTOM_MAP[i].condition, action |-> SYMPTOM_MAP[i].action]

\* SymptomRecord.__init__ and SymptomRecord.to_dict
SymptomDict(patient_id, symptoms) ==
    [patient_id |-> patient_id, symptoms |-> Lower(symptoms),
     condition |-> DetectCondition(Lower(symptoms)).condition,
     action |-> DetectCondition(Lower(symptoms)).action, date |-> Today]

----------------------------------------------------------------------------
(* DataStore *)

EmptyData == [patients |-> <<>>, appointments |-> <<>>, bmi |-> <<>>, symptoms |-> <<>>]

\* DataStore._load_data: an absent or unparsable file gives four empty lists
LoadData(f) == IF f.kind = "json" THEN f.doc ELSE EmptyData

\* DataStore.save_data with the write's outcome w: "ok"; "open_fail" (open()
\* raises IOError, the file is as it was); "write_fail" (the write raises
\* IOError after open() truncated the file, which no longer parses)
SaveData(d, f, w) ==
    IF w = "ok" THEN [file |-> [kind |-> "json", doc |-> d], raised |-> FALSE]
    ELSE IF w = "open_fail" THEN [file |-> f, raised |-> TRUE]
    ELSE [file |-> [kind |-> "corrupt", doc |-> EmptyData], raised |-> TRUE]

\* the in-memory lists, the file and whether save_data raised, after a store call
Stored(d, f, w) == [data |-> d, file |-> SaveData(d, f, w).file,
                    raised |-> SaveData(d, f, w).raised]

AddPatient(d, f, patient, w) ==
    Stored([d EXCEPT !.patients = Append(@, patient)], f, w)

AddAppointment(d, f, appointment, w) ==
    Stored([d EXCEPT !.appointments = Append(@, appointment)], f, w)

AddBmi(d, f, metric, w) ==
    Stored([d EXCEPT !.bmi = Append(@, metric)], f, w)

AddSymptom(d, f, symptom, w) ==
    Stored([d EXCEPT !.symptoms = Append(@, symptom)], f, w)

\* the list comprehensions of the delete methods (mutants invert the test)
OthersInverted(list, pid) == SelectSeq(list, LAMBDA r : r.patient_id = pid)
Others(list, pid) == SelectSeq(list, LAMBDA r : r.patient_id # pid)

DeletePatientsOf(d, f, pid, w) ==
    Stored([d EXCEPT !.patients = Others(@, pid)], f, w)

OtherAppointmentsInverted(list, aid) == SelectSeq(list, LAMBDA a : a.appointment_id = aid)
OtherAppointments(list, aid) == SelectSeq(list, LAMBDA a : a.appointment_id # aid)

DeleteAppointmentOf(d, f, aid, w) ==
    Stored([d EXCEPT !.appointments = OtherAppointments(@, aid)], f, w)

DeleteBmiOf(d, f, pid, w) ==
    Stored([d EXCEPT !.bmi = Others(@, pid)], f, w)

\* a mutant that forgets to save
DeleteSymptomsUnsaved(d, f, pid, w) ==
    [data |-> [d EXCEPT !.symptoms = Others(@, pid)], file |-> f, raised |-> FALSE]
DeleteSymptomsByPatient(d, f, pid, w) ==
    Stored([d EXCEPT !.symptoms = Others(@, pid)], f, w)

----------------------------------------------------------------------------
(* Risk prediction *)

\* next((b for b in store.get_bmi() if b['patient_id'] == patient_id), None):
\* the records of the patient, of which the generator yields the first
BmiOf(list, pid) == SelectSeq(list, LAMBDA b : b.patient_id = pid)

\* len(patient_symptoms) > 5 (a mutant fires at five records already)
ManySymptomsFromFive(n) == n >= 5
ManySymptoms(n) == n > 5

\* predict_disease: the score and the labels, before the clamp
RiskOf(bmiList, symptomList, pid) ==
    LET mine == BmiOf(bmiList, pid)
        n == Len(SelectSeq(symptomList, LAMBDA r : r.patient_id = pid))
        s1 == IF Len(mine) > 0 /\ mine[1].bmi > 3000
              THEN [score |-> 40, labels |-> <<"Diabetes (HIGH RISK)">>]
              ELSE [score |-> 0, labels |-> <<>>]
        s2 == IF Len(mine) > 0 /\ mine[1].bmi > 2500
              THEN [score |-> s1.score + 30,
                    labels |-> Append(s1.labels, "Heart Disease (MEDIUM RISK)")]
              ELSE s1
    IN  IF ManySymptoms(n)
        THEN [score |-> s2.score + 20,
              labels |-> Append(s2.labels, "Chronic Condition (MONITOR)")]
        ELSE s2

Min(a, b) == IF a < b THEN a ELSE b

\* the JSON body predict_disease returns
PredictBody(bmiList, symptomList, pid) ==
    [risk_score |-> Min(RiskOf(bmiList, symptomList, pid).score, 100),
     predictions |-> RiskOf(bmiList, symptomList, pid).labels]

----------------------------------------------------------------------------
(* Routes: one action per handler.  w is the outcome of the handler's file  *)
(* write; a request that never reaches the write takes w = "ok".            *)

Response(op, req, status, body, dropped) ==
    [op |-> op, req |-> req, status |-> status, body |-> body, dropped |-> dropped]

\* the first required key the request body lacks (data[key] raises KeyError)
MissingKey(body, required) ==
    LET miss == {i \in 1..Len(required) : required[i] \notin DOMAIN body}
    IN  IF miss = {} THEN "" ELSE required[CHOOSE i \in miss : \A j \in miss : i <= j]

Failed(raised) == IF raised THEN 1 ELSE 0

SaveError == "Failed to save data"

\* POST /api/patients, under handle_errors
CreatePatient(body, w) ==
    LET key == MissingKey(body, <<"name", "age", "contact">>)
    IN
    IF key # ""
    THEN /\ w = "ok"
         /\ resp' = Response("create_patient", body, 500, key, 0)
         /\ UNCHANGED <<data, file, patient_count, appt_count, issued, faults>>
    ELSE
    LET v == ValidateInput(body.name, body.age, body.contact)
    IN
    IF v.raised # "none"
    THEN /\ w = "ok"
         /\ resp' = Response("create_patient", body,
                             IF v.raised = "ValueError" THEN 400 ELSE 500, v.msg, 0)
         /\ UNCHANGED <<data, file, patient_count, appt_count, issued, faults>>
    ELSE
    LET history == IF "history" \in DOMAIN body THEN body.history ELSE <<>>
        patient == PatientDict(patient_count, body.name, body.age, body.contact, history)
        st == AddPatient(data, file, patient, w)
    IN  /\ patient_count' = Bump(patient_count)
        /\ data' = st.data
        /\ file' = st.file
        /\ faults' = faults + Failed(st.raised)
        /\ issued' = IF st.raised THEN issued ELSE Append(issued, patient.patient_id)
        /\ resp' = IF st.raised
                   THEN Response("create_patient", body, 500, SaveError, 0)
                   ELSE Response("create_patient", body, 201, patient.patient_id, 0)
        /\ UNCHANGED appt_count

\* DELETE /api/patients/<patient_id>, not under handle_errors: an exception
\* of a store call ends the handler there and the server answers 500
DeletePatient(pid, w1, w2, w3) ==
    LET s1 == DeletePatientsOf(data, file, pid, w1)
        s2 == DeleteBmiOf(s1.data, s1.file, pid, w2)
        s3 == DeleteSymptomsByPatient(s2.data, s2.file, pid, w3)
        last == IF s1.raised THEN s1 ELSE IF s2.raised THEN s2 ELSE s3
        dropped == (Len(data.patients) - Len(last.data.patients))
                   + (Len(data.bmi) - Len(last.data.bmi))
                   + (Len(data.symptoms) - Len(last.data.symptoms))
    IN  /\ s1.raised => (w2 = "ok" /\ w3 = "ok")
        /\ s2.raised => w3 = "ok"
        /\ data' = last.data
        /\ file' = last.file
        /\ faults' = faults + Failed(last.raised)
        /\ resp' = IF last.raised
                   THEN Response("delete_patient", pid, 500, "Internal Server Error", dropped)
                   ELSE Response("delete_patient", pid, 200,
                                 "Patient and related records deleted", dropped)
        /\ UNCHANGED <<patient_count, appt_count, issued>>

\* POST /api/appointments, under handle_errors
CreateAppointment(body, w) ==
    LET key == MissingKey(body, <<"patient_id", "doctor", "date", "time">>)
    IN
    IF key # ""
    THEN /\ w = "ok"
         /\ resp' = Response("create_appointment", body, 500, key, 0)
         /\ UNCHANGED <<data, file, patient_count, appt_count, issued, faults>>
    ELSE
    LET appointment == AppointmentDict(appt_count, body.patient_id, body.doctor,
                                       body.date, body.time)
        st == AddAppointment(data, file, appointment, w)
    IN  /\ appt_count' = appt_count + 1
        /\ data' = st.data
        /\ file' = st.file
        /\ faults' = faults + Failed(st.raised)
        /\ resp' = IF st.raised
                   THEN Response("create_appointment", body, 500, SaveError, 0)
                   ELSE Response("create_appointment", body, 201, "Appointment booked", 0)
        /\ UNCHANGED <<patient_count, issued>>

\* DELETE /api/appointments/<appt_id>, not under handle_errors
DeleteAppointment(aid, w) ==
    LET st == DeleteAppointmentOf(data, file, aid, w)
        dropped == Len(data.appointments) - Len(st.data.appointments)
    IN  /\ data' = st.data
        /\ file' = st.file
        /\ faults' = faults + Failed(st.raised)
        /\ resp' = IF st.raised
                   THEN Response("delete_appointment", aid, 500, "Internal Server Error", dropped)
                   ELSE Response("delete_appointment", aid, 200, "Appointment cancelled", dropped)
        /\ UNCHANGED <<patient_count, appt_count, issued>>

\* POST /api/bmi, under handle_errors
CreateBmi(body, w) ==
    LET key == MissingKey(body, <<"patient_id", "weight", "height">>)
    IN
    IF key # ""
    THEN /\ w = "ok"
         /\ resp' = Response("create_bmi", body, 500, key, 0)
         /\ UNCHANGED <<data, file, patient_count, appt_count, issued, faults>>
    ELSE
    IF body.weight <= 0 \/ body.height <= 0
    THEN /\ w = "ok"
         /\ resp' = Response("create_bmi", body, 400, "Weight and height must be positive", 0)
         /\ UNCHANGED <<data, file, patient_count, appt_count, issued, faults>>
    ELSE
    LET metric == MetricDict(body.patient_id, body.weight, body.height)
        st == AddBmi(data, file, metric, w)
    IN  /\ data' = st.data
        /\ file' = st.file
        /\ faults' = faults + Failed(st.raised)
        /\ resp' = IF st.raised
                   THEN Response("create_bmi", body, 500, SaveError, 0)
                   ELSE Response("create_bmi", body, 201,
                                 [bmi |-> metric.bmi, category |-> metric.category], 0)
        /\ UNCHANGED <<patient_count, appt_count, issued>>

\* DELETE /api/bmi/<patient_id>, not under handle_errors
DeleteBmi(pid, w) ==
    LET st == DeleteBmiOf(data, file, pid, w)
        dropped == Len(data.bmi) - Len(st.data.bmi)
    IN  /\ data' = st.data
        /\ file' = st.file
        /\ faults' = faults + Failed(st.raised)
        /\ resp' = IF st.raised
                   THEN Response("delete_bmi", pid, 500, "Internal Server Error", dropped)
                   ELSE Response("delete_bmi", pid, 200, "BMI record(s) deleted", dropped)
        /\ UNCHANGED <<patient_count, appt_count, issued>>

\* POST /api/symptoms, under handle_errors
CreateSymptom(body, w) ==
    LET key == MissingKey(body, <<"patient_id", "symptoms">>)
    IN
    IF key # ""
    THEN /\ w = "ok"
         /\ resp' = Response("create_symptom", body, 500, key, 0)
         /\ UNCHANGED <<data, file, patient_count, appt_count, issued, faults>>
    ELSE
    LET symptom == SymptomDict(body.patient_id, body.symptoms)
        st == AddSymptom(data, file, symptom, w)
    IN  /\ data' = st.data
        /\ file' = st.file
        /\ faults' = faults + Failed(st.raised)
        /\ resp' = IF st.raised
                   THEN Response("create_symptom", body, 500, SaveError, 0)
                   ELSE Response("create_symptom", body, 201, symptom.condition, 0)
        /\ UNCHANGED <<patient_count, appt_count, issued>>

\* GET /api/predict/<patient_id>
PredictDisease(pid) ==
    /\ resp' = Response("predict", pid, 200, PredictBody(data.bmi, data.symptoms, pid), 0)
    /\ UNCHANGED <<data, file, patient_count, appt_count, issued, faults>>

\* GET /api/patients, /api/appointments, /api/bmi, /api/symptoms
GetList(kind) ==
    /\ resp' = Response("get", kind, 200, data[kind], 0)
    /\ UNCHANGED <<data, file, patient_count, appt_count, issued, faults>>

\* The process ends and starts again: the class counters are back at 0 and
\* store = DataStore() loads the file
Restart ==
    /\ data' = LoadData(file)
    /\ patient_count' = 0
    /\ appt_count' = 0
    /\ issued' = <<>>
    /\ resp' = Response("restart", "", 0, "", 0)
    /\ UNCHANGED <<file, faults>>

----------------------------------------------------------------------------
(* Requests the model sends *)

PidA == <<"P", "0", "0", "1">>
PidB == <<"P", "0", "0", "2">>
Pids == {PidA, PidB}

AptA == <<"A", "P", "T", "0", "0", "1">>
AptB == <<"A", "P", "T", "0", "0", "2">>

NameAnu == <<"A", "n", "u">>
Contact10 == <<"9", "8", "7", "6", "5", "4", "3", "2", "1", "0">>
StrAge(s) == [t |-> "str", v |-> s]
IntAge(n) == [t |-> "int", v |-> n]

GoodPatient == [name |-> NameAnu, age |-> StrAge(<<"4", "2">>), contact |-> Contact10]

\* one valid and one invalid patient request
PatientBodiesBasic ==
    {GoodPatient, [GoodPatient EXCEPT !.name = <<" ">>]}

\* valid and invalid patient requests of every kind the validator tells apart
PatientBodiesAll ==
    {GoodPatient,
     [GoodPatient EXCEPT !.age = IntAge(0)],
     [GoodPatient EXCEPT !.age = IntAge(150)],
     [GoodPatient EXCEPT !.age = StrAge(<<" ", "7">>)],
     [GoodPatient EXCEPT !.age = IntAge(151)],
     [GoodPatient EXCEPT !.age = IntAge(-1)],
     [GoodPatient EXCEPT !.age = StrAge(<<"-", "1">>)],
     [GoodPatient EXCEPT !.age = StrAge(<<"1", "5", "1">>)],
     [GoodPatient EXCEPT !.age = StrAge(<<"a", "b">>)],
     [GoodPatient EXCEPT !.age = StrAge(<<"4", ".", "2">>)],
     [GoodPatient EXCEPT !.age = [t |-> "null", v |-> 0]],
     [GoodPatient EXCEPT !.name = <<>>],
     [GoodPatient EXCEPT !.name = <<" ">>],
     [GoodPatient EXCEPT !.name = <<>>, !.age = IntAge(151)],
     [GoodPatient EXCEPT !.contact = <<"1", "2", "3">>],
     [GoodPatient EXCEPT !.contact = Contact10 \o <<"\n">>],
     [name |-> NameAnu, contact |-> Contact10],
     [name |-> NameAnu, age |-> StrAge(<<"4", "2">>), contact |-> Contact10,
      history |-> <<"f", "l", "u">>]}

GoodAppointment(pid) == [patient_id |-> pid, doctor |-> "Dr Rao", date |-> "2025-01-10",
                         time |-> "10:00"]

\* appointments of the first patient
AppointmentBodiesBasic == {GoodAppointment(PidA)}

AppointmentBodiesAll ==
    {GoodAppointment(PidA),
     [doctor |-> "Dr Rao", date |-> "2025-01-10", time |-> "10:00"],
     [patient_id |-> PidA, date |-> "2025-01-10", time |-> "10:00"],
     [patient_id |-> PidA, doctor |-> "Dr Rao", time |-> "10:00"],
     [patient_id |-> PidA, doctor |-> "Dr Rao", date |-> "2025-01-10"]}

BmiBody(pid, weight, height) == [patient_id |-> pid, weight |-> weight, height |-> height]

\* 70 kg at 1.75 m for either patient
BmiBodiesBasic == {BmiBody(pid, 70, 175) : pid \in Pids}

BmiBodiesAll == BmiBodiesBasic \cup {BmiBody(PidA, 0, 175), BmiBody(PidA, 70, -175)}

\* BMIs of 25.0, 30.0 and 32.0 at 1 m, 22.86 at 1.75 m, and a height of 0
BmiBodiesRisk ==
    {BmiBody(pid, wt, 100) : pid \in Pids, wt \in {25, 30, 32}}
        \cup {BmiBody(PidA, 70, 175), BmiBody(PidA, 70, 0)}

TextFever == <<"F", "e", "v", "e", "r">>
TextItch == <<"i", "t", "c", "h">>

SymptomBody(pid, text) == [patient_id |-> pid, symptoms |-> text]

SymptomBodiesBasic == {SymptomBody(pid, TextFever) : pid \in Pids}

SymptomBodiesAll ==
    {SymptomBody(PidA, TextFever), SymptomBody(PidA, TextItch),
     [patient_id |-> PidA], [symptoms |-> TextFever]}

Writes == {"ok", "open_fail", "write_fail"}

----------------------------------------------------------------------------
(* Specifications *)

NoFile == [kind |-> "absent", doc |-> EmptyData]

\* the first start of the server, with no data file yet
Init ==
    /\ data = LoadData(NoFile)
    /\ file = NoFile
    /\ patient_count = 0
    /\ appt_count = 0
    /\ resp = Response("start", "", 0, "", 0)
    /\ issued = <<>>
    /\ faults = 0

TotalRecords == Len(data.patients) + Len(data.appointments) + Len(data.bmi)
                    + Len(data.symptoms)

Room == TotalRecords < MaxRecords

\* The server on a disk whose writes succeed, restarted at any time
Next ==
    \/ \E b \in PatientBodiesBasic :
          Room /\ patient_count < MaxCount /\ CreatePatient(b, "ok")
    \/ \E pid \in Pids : DeletePatient(pid, "ok", "ok", "ok")
    \/ \E b \in AppointmentBodiesBasic :
          Room /\ appt_count < MaxCount /\ CreateAppointment(b, "ok")
    \/ \E aid \in {AptA, AptB} : DeleteAppointment(aid, "ok")
    \/ \E b \in BmiBodiesBasic : Room /\ CreateBmi(b, "ok")
    \/ \E pid \in Pids : DeleteBmi(pid, "ok")
    \/ \E b \in SymptomBodiesBasic : Room /\ CreateSymptom(b, "ok")
    \/ Restart

Spec == Init /\ [][Next]_vars

\* The same server on a disk whose writes may fail
MayFail(w) == w # "ok" => faults < MaxFaults

\* one record fewer than on the reliable disk: the file adds its own states
RoomFault == TotalRecords + 1 < MaxRecords

NextFault ==
    \/ \E b \in PatientBodiesBasic, w \in Writes :
          RoomFault /\ patient_count < MaxCount /\ MayFail(w) /\ CreatePatient(b, w)
    \/ \E pid \in Pids, w1, w2, w3 \in Writes :
          MayFail(w1) /\ MayFail(w2) /\ MayFail(w3) /\ DeletePatient(pid, w1, w2, w3)
    \/ \E b \in AppointmentBodiesBasic, w \in Writes :
          RoomFault /\ appt_count < MaxCount /\ MayFail(w) /\ CreateAppointment(b, w)
    \/ \E aid \in {AptA, AptB}, w \in Writes : MayFail(w) /\ DeleteAppointment(aid, w)
    \/ \E b \in BmiBodiesBasic, w \in Writes : RoomFault /\ MayFail(w) /\ CreateBmi(b, w)
    \/ \E pid \in Pids, w \in Writes : MayFail(w) /\ DeleteBmi(pid, w)
    \/ \E b \in SymptomBodiesBasic, w \in Writes : RoomFault /\ MayFail(w) /\ CreateSymptom(b, w)
    \/ \E kind \in {"patients", "appointments", "bmi", "symptoms"} : GetList(kind)
    \/ Restart

SpecFault == Init /\ [][NextFault]_vars

\* BMI and symptom records and the risk prediction over them
NextRisk ==
    \/ \E b \in BmiBodiesRisk : Len(data.bmi) < MaxBmi /\ CreateBmi(b, "ok")
    \/ \E b \in SymptomBodiesBasic :
          Len(data.symptoms) < MaxSymptoms /\ CreateSymptom(b, "ok")
    \/ \E pid \in Pids : PredictDisease(pid)

SpecRisk == Init /\ [][NextRisk]_vars

\* The create requests with every kind of valid and invalid body
NextValidate ==
    \/ \E b \in PatientBodiesAll :
          Room /\ patient_count < MaxCount /\ CreatePatient(b, "ok")
    \/ \E b \in AppointmentBodiesAll :
          Room /\ appt_count < MaxCount /\ CreateAppointment(b, "ok")
    \/ \E b \in BmiBodiesAll : Room /\ CreateBmi(b, "ok")
    \/ \E b \in SymptomBodiesAll : Room /\ CreateSymptom(b, "ok")

SpecValidate == Init /\ [][NextValidate]_vars

----------------------------------------------------------------------------
(* Properties *)

Deletes == {"delete_patient", "delete_appointment", "delete_bmi"}
Creates == {"create_patient", "create_appointment", "create_bmi", "create_symptom"}

\* the records of a list that belong to patient id, and the others, in order
Of(list, id) == SelectSeq(list, LAMBDA r : r.patient_id = id)
NotOf(list, id) == SelectSeq(list, LAMBDA r : r.patient_id # id)

Range(seq) == {seq[i] : i \in 1..Len(seq)}

\* C1: within one process run every successful patient creation gets an
\* identifier that differs from all identifiers returned earlier in the run
\* and whose numeric counter is strictly greater than theirs.
C1_IdsUniqueAndIncreasing ==
    \A i, j \in 1..Len(issued) :
        i < j => issued[i] # issued[j] /\ IdNum(issued[i]) < IdNum(issued[j])

\* two creations have succeeded in this run, the later one just now
C1_Witness ==
    /\ Len(issued) >= 2
    /\ resp.op = "create_patient"
    /\ resp.status = 201
    /\ resp.body = issued[Len(issued)]

\* C2: a DELETE /api/patients/{id} that succeeds leaves no patient, BMI or
\* symptom record of id, keeps every other record of those lists in its
\* order, and leaves the appointments list exactly as it was.
C2_DeletePatientCascade ==
    [][(resp'.op = "delete_patient" /\ resp'.status = 200) =>
         /\ \A k \in {"patients", "bmi", "symptoms"} :
               /\ Of(data'[k], resp'.req) = <<>>
               /\ NotOf(data'[k], resp'.req) = NotOf(data[k], resp'.req)
         /\ data'.appointments = data.appointments]_vars

\* a patient delete dropped at least two records, an appointment of that
\* patient is still stored, and so is a BMI or symptom record of another one
C2_Witness ==
    /\ resp.op = "delete_patient"
    /\ resp.status = 200
    /\ resp.dropped >= 2
    /\ Of(data.appointments, resp.req) # <<>>
    /\ Len(data.bmi) + Len(data.symptoms) >= 1

\* C3: the prediction's BMI labels are those of the patient's BMI record that
\* was appended last.
C3_PredictUsesLatestBmi ==
    resp.op = "predict" =>
        LET mine == Of(data.bmi, resp.req)
            latest == mine[Len(mine)]
        IN  /\ "Diabetes (HIGH RISK)" \in Range(resp.body.predictions)
                  <=> (mine # <<>> /\ latest.bmi > 3000)
            /\ "Heart Disease (MEDIUM RISK)" \in Range(resp.body.predictions)
                  <=> (mine # <<>> /\ latest.bmi > 2500)

\* C4: a mutating request that fails leaves the in-memory lists and both id
\* counters as they were before it.
C4_NoPartialSuccess ==
    [][(resp'.op \in Creates \cup Deletes /\ resp'.status >= 400) =>
         /\ data' = data
         /\ patient_count' = patient_count
         /\ appt_count' = appt_count]_vars

\* the score and the labels the rule gives for a BMI (in hundredths, -1 for
\* no record) and a number of symptom records
RuleScore(bmi, n) ==
    (IF bmi > 3000 THEN 40 ELSE 0) + (IF bmi > 2500 THEN 30 ELSE 0)
        + (IF n > 5 THEN 20 ELSE 0)

RuleLabels(bmi, n) ==
    (IF bmi > 3000 THEN <<"Diabetes (HIGH RISK)">> ELSE <<>>)
        \o (IF bmi > 2500 THEN <<"Heart Disease (MEDIUM RISK)">> ELSE <<>>)
        \o (IF n > 5 THEN <<"Chronic Condition (MONITOR)">> ELSE <<>>)

\* C5: a prediction returns min(100, 40*[bmi > 30] + 30*[bmi > 25] +
\* 20*[more than 5 symptom records]) for a BMI record of the patient (no BMI
\* points without one) and exactly the triggered labels in the order
\* Diabetes, Heart Disease, Chronic Condition; the score is one of 0, 20, 30,
\* 50, 70, 90.
C5_RiskScoreRule ==
    resp.op = "predict" =>
        LET mine == Of(data.bmi, resp.req)
            n == Len(Of(data.symptoms, resp.req))
            picks == IF mine = <<>> THEN {-1} ELSE {mine[i].bmi : i \in 1..Len(mine)}
        IN  /\ \E bmi \in picks :
                  /\ resp.body.risk_score = Min(100, RuleScore(bmi, n))
                  /\ resp.body.predictions = RuleLabels(bmi, n)
            /\ resp.body.risk_score \in {0, 20, 30, 50, 70, 90}
            /\ resp.status = 200

\* a patient with a BMI above 30 and six symptom records scores 90 with all
\* three labels
C5_Witness ==
    /\ resp.op = "predict"
    /\ Len(Of(data.symptoms, resp.req)) = 6
    /\ resp.body.risk_score = 90
    /\ Len(resp.body.predictions) = 3

\* what each delete route leaves of the lists when its writes succeed
AfterDelete(op, d, id) ==
    IF op = "delete_patient"
    THEN DeleteSymptomsByPatient(DeleteBmiOf(DeletePatientsOf(d, NoFile, id, "ok").data,
                                             NoFile, id, "ok").data, NoFile, id, "ok").data
    ELSE IF op = "delete_appointment" THEN DeleteAppointmentOf(d, NoFile, id, "ok").data
    ELSE DeleteBmiOf(d, NoFile, id, "ok").data

\* no record that the delete route looks at carries the id
MatchesNothing(op, d, id) ==
    IF op = "delete_patient"
    THEN \A k \in {"patients", "bmi", "symptoms"} : Of(d[k], id) = <<>>
    ELSE IF op = "delete_appointment"
    THEN \A i \in 1..Len(d.appointments) : d.appointments[i].appointment_id # id
    ELSE Of(d.bmi, id) = <<>>

\* C6: a delete of an id that matches no stored record answers 200 and
\* leaves all four lists as they were; and after any delete, the same delete
\* once more would leave the lists as they are.
C6_DeleteIdempotent ==
    [][resp'.op \in Deletes =>
         /\ MatchesNothing(resp'.op, data, resp'.req) =>
               (resp'.status = 200 /\ data' = data)
         /\ AfterDelete(resp'.op, data', resp'.req) = data']_vars

\* a delete that dropped nothing was answered 200 with records in the store
C6_Witness ==
    /\ resp.op \in Deletes
    /\ resp.status = 200
    /\ resp.dropped = 0
    /\ TotalRecords >= 2

\* C7: after a successful add or delete, loading the file gives exactly the
\* four in-memory lists.
C7_FileRoundTrip ==
    (resp.op \in Creates \cup Deletes /\ resp.status \in {200, 201}) =>
        /\ file.kind = "json"
        /\ LoadData(file) = data

\* a patient delete that dropped records, with records left to reload
C7_Witness ==
    /\ resp.op = "delete_patient"
    /\ resp.status = 200
    /\ resp.dropped >= 2
    /\ TotalRecords >= 2
    /\ LoadData(file) = data

\* C8: with a valid name and contact, an age that parses as an integer outside
\* [0,150] is answered 400 "Age must be between 0-150", an age that does not
\* parse as an integer 400 "Invalid age format", and no such patient is stored.
C8_AgeErrorsDistinguished ==
    /\ (/\ resp.op = "create_patient"
        /\ MissingKey(resp.req, <<"name", "age", "contact">>) = ""
        /\ Len(Strip(resp.req.name)) > 0
        /\ ContactMatches(resp.req.contact)
        /\ resp.req.age.t # "null")
       => LET p == IntParse(resp.req.age)
          IN  /\ (p.ok /\ (p.v < 0 \/ p.v > 150)) =>
                    (resp.status = 400 /\ resp.body = "Age must be between 0-150")
              /\ ~p.ok => (resp.status = 400 /\ resp.body = "Invalid age format")
    /\ \A i \in 1..Len(data.patients) :
          data.patients[i].age >= 0 /\ data.patients[i].age <= 150

\* C9: an appointment or symptom request that lacks a required field is
\* answered 400.
C9_MissingFieldIs400 ==
    /\ (resp.op = "create_appointment"
          /\ MissingKey(resp.req, <<"patient_id", "doctor", "date", "time">>) # "")
       => resp.status = 400
    /\ (resp.op = "create_symptom"
          /\ MissingKey(resp.req, <<"patient_id", "symptoms">>) # "")
       => resp.status = 400

\* C10: no two stored patients share a patient_id and no two stored
\* appointments share an appointment_id.
C10_StoredIdsUnique ==
    /\ \A i, j \in 1..Len(data.patients) :
          i # j => data.patients[i].patient_id # data.patients[j].patient_id
    /\ \A i, j \in 1..Len(data.appointments) :
          i # j => data.appointments[i].appointment_id # data.appointments[j].appointment_id

====
